---- MODULE Spec2Model ----
(***************************************************************************)
(* Location-aware todo server (src/mock-impl.rs): the in-memory store      *)
(* behind one mutex, the global identifier counter NEXT_ID, the five CRUD  *)
(* handlers and the proximity query get_nearby_todos with the haversine    *)
(* distance it is built on.                                                *)
(*                                                                         *)
(* Numbers.  f64 values are modelled in fixed point.  Angles in degrees    *)
(* are integers in units of 1/FP degree, angles in radians and the         *)
(* dimensionless haversine terms are integers in units of 1/FP, distances  *)
(* and radii are whole metres.  The one non-finite value kept is NaN; an   *)
(* infinite input reaches sin() and becomes NaN there, so it behaves as    *)
(* NaN does in everything modelled here.                                   *)
(*                                                                         *)
(* The text fields of a Todo (title, description, due_date,                *)
(* personal_notes) and the id and name of a LocationTrigger are copied     *)
(* verbatim by every handler and read by none; they are left out of the    *)
(* records.                                                                *)
(***************************************************************************)
EXTENDS Integers, Sequences, FiniteSets, TLC

(***************************************************************************)
(* Fixed-point f64                                                         *)
(***************************************************************************)

\* One unit (1.0) of the fixed-point representation.
FP == 10000

\* f64::NAN: a value outside every range the computation can produce.
NaN == 0 - 2000000000

IsNaN(x) == x = NaN

\* The one element of a singleton.  In Only({ F(x) : x \in {e} }) the value
\* of e is computed once and F reads it as often as it likes, as with
\* let x = e; F(x).
Only(S) == CHOOSE v \in S : TRUE

Abs(x) == IF x < 0 THEN 0 - x ELSE x

Sgn(x) == IF x < 0 THEN 0 - 1 ELSE 1

\* n / d rounded to nearest, ties away from zero (d > 0); odd in n, as IEEE
\* arithmetic is: (-n)/d = -(n/d).
RoundDiv(n, d) ==
    Only({ IF v < 0 THEN 0 - ((d \div 2 - v) \div d) ELSE (v + d \div 2) \div d : v \in {n} })

\* x * y of two fixed-point values.
FMul(x, y) == RoundDiv(x * y, FP)

\* pi and pi/2 in radians.
PI == 31416

HALF_PI == 15708

\* f64::to_radians: degrees (units of 1/FP degree) to radians (units of 1/FP),
\* deg * (pi / 180) with pi / 180 = 0.017453.
to_radians(deg) ==
    Only({ Sgn(deg) * RoundDiv((m \div FP) * 17453 + RoundDiv((m % FP) * 17453, FP), 100) :
              m \in {Abs(deg)} })

\* Taylor series of sin on [0, pi/2]: the sum of the terms from the k-th on,
\* where t is the k-th term and x2 = x^2.
RECURSIVE SinSeries(_, _, _)
SinSeries(t, x2, k) ==
    IF k > 6 \/ t = 0 THEN 0
    ELSE Only({ t + SinSeries(u, x2, k + 1) :
                   u \in {0 - RoundDiv(FMul(t, x2), (2 * k) * (2 * k + 1))} })

\* s kept within [0, 1].
ClampUnit(s) == Only({ IF v > FP THEN FP ELSE IF v < 0 THEN 0 ELSE v : v \in {s} })

\* sin on [0, pi/2]; |sin| never exceeds 1.
SinQuadrant(x) == Only({ ClampUnit(SinSeries(v, x2, 1)) : <<v, x2>> \in {<<x, FMul(x, x)>>} })

\* f64::sin: odd, periodic, reduced to the first quadrant.
sin(x) ==
    Only({ Sgn(a) * (IF m <= HALF_PI THEN SinQuadrant(m)
                     ELSE IF m <= PI THEN SinQuadrant(PI - m)
                     ELSE IF m <= PI + HALF_PI THEN 0 - SinQuadrant(m - PI)
                     ELSE 0 - SinQuadrant(2 * PI - m)) :
              <<a, m>> \in { <<v, Abs(v) % (2 * PI)>> : v \in {x} } })

\* f64::cos: even; cos(x) = sin(pi/2 - |x|).
cos(x) == sin(HALF_PI - Abs(x))

\* floor(sqrt(v)) of a natural number by bisection on [lo, hi).
RECURSIVE ISqrt(_, _, _)
ISqrt(v, lo, hi) ==
    IF hi - lo <= 1 THEN lo
    ELSE Only({ IF mid * mid <= v THEN ISqrt(v, mid, hi) ELSE ISqrt(v, lo, mid) :
                   mid \in {(lo + hi) \div 2} })

\* f64::sqrt: NaN for a negative argument.
sqrt(x) ==
    Only({ IF IsNaN(a) \/ a < 0 THEN NaN ELSE Only({ ISqrt(v, 0, 46340) : v \in {a * FP} }) :
              a \in {x} })

\* atan(2^-i) in radians, i = 0..13.
AtanTable == <<7854, 4636, 2450, 1244, 624, 312, 156, 78, 39, 20, 10, 5, 2, 1>>

\* CORDIC in vectoring mode: rotates (x, y), x > 0, onto the x axis and
\* returns the angle turned; the i-th turn is by atan(1/p), p = 2^(i-1).
RECURSIVE Cordic(_, _, _, _)
Cordic(x, y, i, p) ==
    IF i > Len(AtanTable) \/ y = 0 THEN 0
    ELSE IF y > 0
    THEN Only({ AtanTable[i] + Cordic(n[1], n[2], n[3], n[4]) :
                   n \in {<<x + RoundDiv(y, p), y - RoundDiv(x, p), i + 1, 2 * p>>} })
    ELSE Only({ Cordic(n[1], n[2], n[3], n[4]) - AtanTable[i] :
                   n \in {<<x - RoundDiv(y, p), y + RoundDiv(x, p), i + 1, 2 * p>>} })

\* f64::atan2(y, x).
atan2(y, x) ==
    Only({ IF IsNaN(b) \/ IsNaN(a) THEN NaN
           ELSE IF a = 0 THEN (IF b = 0 THEN 0 ELSE Sgn(b) * HALF_PI)
           ELSE IF a > 0 THEN Cordic(a * 1000, b * 1000, 1, 1)
           ELSE IF b >= 0 THEN PI - Cordic((0 - a) * 1000, b * 1000, 1, 1)
           ELSE 0 - PI - Cordic((0 - a) * 1000, b * 1000, 1, 1) :
              <<b, a>> \in {<<y, x>>} })

\* Earth's radius in metres.
EARTH_RADIUS_METERS == 6371000

\* a = sin^2(dlat/2) + cos(lat1) * cos(lat2) * sin^2(dlng/2)
HaversineTerm(sin_lat, cos_lat1, cos_lat2, sin_lng) ==
    Only({ FMul(t[1], t[1]) + FMul(t[2], t[3]) :
              t \in { <<u[1], FMul(u[2], u[3]), FMul(u[4], u[4])>> :
                         u \in {<<sin_lat, cos_lat1, cos_lat2, sin_lng>>} } })

\* 2.0 * t
FDouble(t) == Only({ IF IsNaN(v) THEN NaN ELSE 2 * v : v \in {t} })

\* c = 2 * atan2(sqrt(a), sqrt(1 - a))
CentralAngle(a) == Only({ FDouble(atan2(sqrt(v), sqrt(FP - v))) : v \in {a} })

\* EARTH_RADIUS_METERS * c, in metres.
ArcLength(c) ==
    Only({ IF IsNaN(v) THEN NaN
           ELSE (EARTH_RADIUS_METERS \div FP) * v
                + RoundDiv((EARTH_RADIUS_METERS % FP) * v, FP) : v \in {c} })

\* Distance in metres between two GPS coordinates by the haversine formula.
calculate_distance(lat1, lng1, lat2, lng2) ==
    IF IsNaN(lat1) \/ IsNaN(lng1) \/ IsNaN(lat2) \/ IsNaN(lng2) THEN NaN
    ELSE
    LET lat1_rad == to_radians(lat1)
        lat2_rad == to_radians(lat2)
        delta_lat == to_radians(lat2 - lat1)
        delta_lng == to_radians(lng2 - lng1)
    IN  ArcLength(CentralAngle(HaversineTerm(sin(RoundDiv(delta_lat, 2)), cos(lat1_rad),
                                             cos(lat2_rad), sin(RoundDiv(delta_lng, 2)))))

\* distance <= radius on f64: false when either side is NaN.
FLe(x, y) == Only({ ~IsNaN(a) /\ ~IsNaN(b) /\ a <= b : <<a, b>> \in {<<x, y>>} })

(***************************************************************************)
(* Records                                                                 *)
(***************************************************************************)

\* Option<T>
None == [some |-> FALSE]

Some(v) == [some |-> TRUE, val |-> v]

\* struct LocationTrigger
LocationTrigger(lat, lng, rad) == [latitude |-> lat, longitude |-> lng, radius |-> rad]

\* struct Todo
Todo(i, done, pct, triggers) ==
    [id |-> i, completed |-> done, completion_percentage |-> pct,
     location_triggers |-> triggers]

\* The sample todo main stores at start-up: the "Home" trigger at
\* (37.7749, -122.4194) with a 100 metre radius, 50 percent complete.
HomeLatitude == 377749

HomeLongitude == -1224194

HomeRadius == 100

SamplePercentage == 50

Home == LocationTrigger(HomeLatitude, HomeLongitude, HomeRadius)

sample_todo == Todo(1, FALSE, Some(SamplePercentage), Some(<<Home>>))

(***************************************************************************)
(* Request inputs.  The handlers take whatever serde deserializes: any     *)
(* f64 for a coordinate or a radius, any u8 for a percentage, any u32 for  *)
(* an id.  The sets below are the values the requests of the model carry.  *)
(***************************************************************************)

\* A trigger on the equator at 90 degrees east, 50 metre radius.
Far == LocationTrigger(0, 900000, 50)

\* A trigger at (0, 0) whose radius is a quarter of a great circle: the
\* north pole lies exactly on its rim.
Ring == LocationTrigger(0, 0, calculate_distance(0, 0, 900000, 0))

\* A trigger centred as Home with radius -1.0.
Negative == LocationTrigger(HomeLatitude, HomeLongitude, 0 - 1)

\* location_triggers of the request bodies.
TriggerChoices ==
    { None, Some(<< >>), Some(<<Far, Home, Home>>), Some(<<Ring>>), Some(<<Negative>>) }

\* A u8 above 100.
OverPercentage == 255

\* Bodies of POST /todos (struct CreateTodo).
CreateTodoPayloads ==
    { [completion_percentage |-> IF t = None THEN Some(OverPercentage) ELSE None,
       location_triggers |-> t] : t \in TriggerChoices }

\* Bodies of PUT /todos/{id} (struct Todo) sent to path id: the id field is
\* the client's and need not be the path's.
UpdateTodoPayloads(id) ==
    { Todo(id, TRUE, None, Some(<<Home>>)),
      Todo(id, FALSE, Some(OverPercentage), Some(<<Negative>>)),
      Todo(id + 1, FALSE, None, Some(<<Far, Home, Home>>)) }

\* Query strings of GET /todos/nearby (struct LocationQuery): the Home
\* centre, the north pole, latitude 91 and latitude NaN.
LocationQueries ==
    { [lat |-> HomeLatitude, lng |-> HomeLongitude],
      [lat |-> 900000, lng |-> 0],
      [lat |-> 910000, lng |-> 0],
      [lat |-> NaN, lng |-> 0] }

\* Number of requests in flight at once.
NumReqs == 2

\* Identifiers are handed out while NEXT_ID is below MaxId (u32 in the code;
\* the model stays far below u32::MAX, where the increment would overflow).
MaxId == 3

Reqs == 1 .. NumReqs

\* The ids a request path can name: every key the store can hold and one
\* it never holds.
PathIds == 1 .. MaxId

(***************************************************************************)
(* State                                                                   *)
(***************************************************************************)

VARIABLES
    todos,      \* the HashMap<u32, Todo> behind the store's mutex
    NEXT_ID,    \* static mut NEXT_ID
    lock,       \* the request holding the store's mutex, or Free
    req,        \* per request: where its handler stands and its locals
    response,   \* the status of the response sent last
    call        \* a call of calculate_distance on its own: arguments and result

\* The variables of the server.
server_vars == <<todos, NEXT_ID, lock, req, response>>

vars == <<todos, NEXT_ID, lock, req, response, call>>

Free == 0

\* A request slot with no handler running.
Idle ==
    [pc |-> "idle", id |-> 0, location |-> [lat |-> 0, lng |-> 0],
     visited |-> << >>, nearby_todos |-> << >>]

\* main: the empty store, the sample todo inserted under key 1, NEXT_ID = 1.
main ==
    /\ todos = (1 :> sample_todo)
    /\ NEXT_ID = 1
    /\ lock = Free
    /\ req = [r \in Reqs |-> Idle]
    /\ response = "NONE"

\* The server after main has set it up; calculate_distance is called by the
\* handlers only.
Init == main /\ call = None

\* HashMap::insert
Insert(map, k, v) == [j \in DOMAIN map \cup {k} |-> IF j = k THEN v ELSE map[j]]

\* HashMap::remove
Remove(map, k) == [j \in DOMAIN map \ {k} |-> map[j]]

\* store.lock().unwrap() as the handler's first statement: the request
\* arrives and takes the mutex.
Acquire(r, pc) ==
    /\ lock = Free
    /\ req[r].pc = "idle"
    /\ lock' = r
    /\ req' = [req EXCEPT ![r].pc = pc]
    /\ UNCHANGED response

\* Respond with the guard kept alive (leaked): the mutex stays taken.
Respond_keeping_guard(r, status) ==
    /\ lock' = lock
    /\ req' = [req EXCEPT ![r] = Idle]
    /\ response' = status

\* The handler returns: the guard drops, the response goes out.
Respond(r, status) ==
    /\ lock' = Free
    /\ req' = [req EXCEPT ![r] = Idle]
    /\ response' = status

(***************************************************************************)
(* GET /todos                                                              *)
(***************************************************************************)

get_todos_lock(r) == Acquire(r, "get_todos") /\ UNCHANGED <<todos, NEXT_ID, call>>

get_todos(r) ==
    /\ req[r].pc = "get_todos"
    /\ Respond(r, "OK")
    /\ UNCHANGED <<todos, NEXT_ID, call>>

(***************************************************************************)
(* GET /todos/{id}                                                         *)
(***************************************************************************)

get_todo_lock(r) == Acquire(r, "get_todo") /\ UNCHANGED <<todos, NEXT_ID, call>>

\* The handler's body for Path(id).
get_todo_at(r, id) ==
    /\ req[r].pc = "get_todo"
    /\ Respond(r, IF id \in DOMAIN todos THEN "OK" ELSE "NOT_FOUND")
    /\ UNCHANGED <<todos, NEXT_ID, call>>

get_todo(r) == \E id \in PathIds : get_todo_at(r, id)

(***************************************************************************)
(* POST /todos.  get_next_id runs before the mutex is taken and touches    *)
(* static mut NEXT_ID with a plain load and a plain store.                 *)
(***************************************************************************)

\* let id = NEXT_ID;
get_next_id_read(r) ==
    /\ req[r].pc = "idle"
    /\ NEXT_ID < MaxId
    /\ req' = [req EXCEPT ![r].pc = "get_next_id", ![r].id = NEXT_ID]
    /\ UNCHANGED <<todos, NEXT_ID, lock, response, call>>

\* NEXT_ID += 1; the store writes either the value just reloaded plus one or
\* the value loaded for id plus one, as the build arranges the loads.
get_next_id_write(r) ==
    /\ req[r].pc = "get_next_id"
    /\ NEXT_ID' \in {NEXT_ID + 1, req[r].id + 1}
    /\ req' = [req EXCEPT ![r].pc = "create_todo_wait"]
    /\ UNCHANGED <<todos, lock, response, call>>

create_todo_lock(r) ==
    /\ lock = Free
    /\ req[r].pc = "create_todo_wait"
    /\ lock' = r
    /\ req' = [req EXCEPT ![r].pc = "create_todo"]
    /\ UNCHANGED <<todos, NEXT_ID, response, call>>

create_todo(r) ==
    /\ req[r].pc = "create_todo"
    /\ \E payload \in CreateTodoPayloads :
          LET todo == Todo(req[r].id, FALSE, payload.completion_percentage,
                           payload.location_triggers)
          IN  todos' = Insert(todos, todo.id, todo)
    /\ Respond(r, "OK")
    /\ UNCHANGED <<NEXT_ID, call>>

(***************************************************************************)
(* PUT /todos/{id}                                                         *)
(***************************************************************************)

update_todo_lock(r) == Acquire(r, "update_todo") /\ UNCHANGED <<todos, NEXT_ID, call>>

\* update_todo_at without the contains_key test: an upsert.
update_todo_at_upsert(r, id, payload) ==
    /\ req[r].pc = "update_todo"
    /\ todos' = Insert(todos, id, payload)
    /\ Respond(r, "OK")
    /\ UNCHANGED <<NEXT_ID, call>>

\* The handler's body for Path(id) and Json(payload).
update_todo_at(r, id, payload) ==
    /\ req[r].pc = "update_todo"
    /\ IF id \in DOMAIN todos
       THEN /\ todos' = Insert(todos, id, payload)
            /\ Respond(r, "OK")
       ELSE /\ todos' = todos
            /\ Respond(r, "NOT_FOUND")
    /\ UNCHANGED <<NEXT_ID, call>>

update_todo(r) ==
    \E id \in PathIds : \E payload \in UpdateTodoPayloads(id) : update_todo_at(r, id, payload)

(***************************************************************************)
(* DELETE /todos/{id}                                                      *)
(***************************************************************************)

delete_todo_lock(r) == Acquire(r, "delete_todo") /\ UNCHANGED <<todos, NEXT_ID, call>>

\* delete_todo_at answering NO_CONTENT with the record left in the map.
delete_todo_at_keeping(r, id) ==
    /\ req[r].pc = "delete_todo"
    /\ todos' = todos
    /\ Respond(r, IF id \in DOMAIN todos THEN "NO_CONTENT" ELSE "NOT_FOUND")
    /\ UNCHANGED <<NEXT_ID, call>>

\* The handler's body for Path(id).
delete_todo_at(r, id) ==
    /\ req[r].pc = "delete_todo"
    /\ IF id \in DOMAIN todos
       THEN /\ todos' = Remove(todos, id)
            /\ Respond(r, "NO_CONTENT")
       ELSE /\ todos' = todos
            /\ Respond(r, "NOT_FOUND")
    /\ UNCHANGED <<NEXT_ID, call>>

delete_todo(r) == \E id \in PathIds : delete_todo_at(r, id)

(***************************************************************************)
(* GET /todos/nearby                                                       *)
(***************************************************************************)

\* distance < radius on f64.
FLt(x, y) == ~IsNaN(x) /\ ~IsNaN(y) /\ x < y

\* trigger_in_range without the completed test.
trigger_in_range_any_status(location, trigger, todo) ==
    LET distance == calculate_distance(location.lat, location.lng,
                                       trigger.latitude, trigger.longitude)
    IN  FLe(distance, trigger.radius)

\* trigger_in_range comparing with < in place of <=.
trigger_in_range_strict(location, trigger, todo) ==
    LET distance == calculate_distance(location.lat, location.lng,
                                       trigger.latitude, trigger.longitude)
    IN  FLt(distance, trigger.radius) /\ ~todo.completed

\* The closure of triggers.iter().any(..): one trigger against the location.
trigger_in_range(location, trigger, todo) ==
    LET distance == calculate_distance(location.lat, location.lng,
                                       trigger.latitude, trigger.longitude)
    IN  FLe(distance, trigger.radius) /\ ~todo.completed

\* is_nearby with all() in place of any().
is_nearby_all(location, todo) ==
    IF todo.location_triggers.some
    THEN LET triggers == todo.location_triggers.val
         IN  \A i \in 1 .. Len(triggers) : trigger_in_range(location, triggers[i], todo)
    ELSE FALSE

\* is_nearby looking at the first trigger only.
is_nearby_first(location, todo) ==
    IF todo.location_triggers.some
    THEN LET triggers == todo.location_triggers.val
         IN  Len(triggers) > 0 /\ trigger_in_range(location, triggers[1], todo)
    ELSE FALSE

\* The closure of .filter(..): whether a todo is nearby.
is_nearby(location, todo) ==
    IF todo.location_triggers.some
    THEN LET triggers == todo.location_triggers.val
         IN  \E i \in 1 .. Len(triggers) : trigger_in_range(location, triggers[i], todo)
    ELSE FALSE

\* get_nearby_todos_lock with the guard dropped at once: the scan runs
\* without the mutex.
get_nearby_todos_lock_dropped(r) ==
    /\ lock = Free
    /\ req[r].pc = "idle"
    /\ lock' = Free
    /\ \E location \in LocationQueries :
          req' = [req EXCEPT ![r].pc = "get_nearby_todos", ![r].location = location]
    /\ UNCHANGED <<todos, NEXT_ID, response, call>>

\* The query string is extracted and the mutex taken.
get_nearby_todos_lock(r) ==
    /\ lock = Free
    /\ req[r].pc = "idle"
    /\ lock' = r
    /\ \E location \in LocationQueries :
          req' = [req EXCEPT ![r].pc = "get_nearby_todos", ![r].location = location]
    /\ UNCHANGED <<todos, NEXT_ID, response, call>>

\* seq followed by n copies of v.
RECURSIVE AppendTimes(_, _, _)
AppendTimes(seq, v, n) == IF n = 0 THEN seq ELSE AppendTimes(Append(seq, v), v, n - 1)

\* get_nearby_todos_filter pushing a clone for every trigger in range (a
\* flat_map over the triggers in place of filter + any).
get_nearby_todos_filter_per_trigger(r) ==
    /\ req[r].pc = "get_nearby_todos"
    /\ \E k \in DOMAIN todos \ { req[r].visited[i] : i \in 1 .. Len(req[r].visited) } :
          LET triggers == IF todos[k].location_triggers.some
                          THEN todos[k].location_triggers.val ELSE << >>
              n == Cardinality({ i \in 1 .. Len(triggers) :
                                   trigger_in_range(req[r].location, triggers[i], todos[k]) })
          IN  req' = [req EXCEPT
                        ![r].visited = Append(@, k),
                        ![r].nearby_todos = AppendTimes(@, todos[k], n)]
    /\ UNCHANGED <<todos, NEXT_ID, lock, response, call>>

\* get_nearby_todos_filter marking every todo it reports as completed in
\* the store.
get_nearby_todos_filter_marking(r) ==
    /\ req[r].pc = "get_nearby_todos"
    /\ \E k \in DOMAIN todos \ { req[r].visited[i] : i \in 1 .. Len(req[r].visited) } :
          /\ req' = [req EXCEPT
                       ![r].visited = Append(@, k),
                       ![r].nearby_todos =
                           IF is_nearby(req[r].location, todos[k])
                           THEN Append(@, todos[k]) ELSE @]
          /\ todos' = IF is_nearby(req[r].location, todos[k])
                      THEN [todos EXCEPT ![k].completed = TRUE] ELSE todos
    /\ UNCHANGED <<NEXT_ID, lock, response, call>>

\* One turn of todos.values().filter(..).cloned().collect(): the iterator
\* yields a value not yet visited (a HashMap's order is unspecified), and a
\* clone of it is pushed when the filter accepts it.
get_nearby_todos_filter(r) ==
    /\ req[r].pc = "get_nearby_todos"
    /\ \E k \in DOMAIN todos \ { req[r].visited[i] : i \in 1 .. Len(req[r].visited) } :
          req' = [req EXCEPT
                    ![r].visited = Append(@, k),
                    ![r].nearby_todos =
                        IF is_nearby(req[r].location, todos[k])
                        THEN Append(@, todos[k]) ELSE @]
    /\ UNCHANGED <<todos, NEXT_ID, lock, response, call>>

\* The iterator is exhausted: Json(nearby_todos) is returned.
get_nearby_todos(r) ==
    /\ req[r].pc = "get_nearby_todos"
    /\ Len(req[r].visited) = Cardinality(DOMAIN todos)
    /\ Respond(r, "OK")
    /\ UNCHANGED <<todos, NEXT_ID, call>>

(***************************************************************************)
(* The server: tokio runs the handlers of concurrent requests on its       *)
(* worker threads.                                                         *)
(***************************************************************************)

Next ==
    \E r \in Reqs :
       \/ get_todos_lock(r)
       \/ get_todos(r)
       \/ get_todo_lock(r)
       \/ get_todo(r)
       \/ get_next_id_read(r)
       \/ get_next_id_write(r)
       \/ create_todo_lock(r)
       \/ create_todo(r)
       \/ update_todo_lock(r)
       \/ update_todo(r)
       \/ delete_todo_lock(r)
       \/ delete_todo(r)
       \/ get_nearby_todos_lock(r)
       \/ get_nearby_todos_filter(r)
       \/ get_nearby_todos(r)

Spec == Init /\ [][Next]_vars

(***************************************************************************)
(* Properties of the proximity query                                       *)
(***************************************************************************)

\* Request r is inside get_nearby_todos, holding the mutex.
Scanning(r) == req[r].pc = "get_nearby_todos"

\* Request r has visited every value of the map and is about to return.
Scanned(r) == Scanning(r) /\ Len(req[r].visited) = Cardinality(DOMAIN todos)

\* The todos request r has collected so far.
Collected(r) == { req[r].nearby_todos[i] : i \in 1 .. Len(req[r].nearby_todos) }

\* The triggers of a todo, none when location_triggers is None.
TriggersOf(todo) ==
    IF todo.location_triggers.some THEN todo.location_triggers.val ELSE << >>

\* The distance from a query location to a trigger's centre.
DistanceTo(location, trigger) ==
    calculate_distance(location.lat, location.lng, trigger.latitude, trigger.longitude)

\* The indices of the triggers of todo whose zone contains the location.
ZonesInRange(location, todo) ==
    { i \in 1 .. Len(TriggersOf(todo)) :
        FLe(DistanceTo(location, TriggersOf(todo)[i]), TriggersOf(todo)[i].radius) }

\* C1: whatever the store holds and whatever the query point, no todo
\* collected by get_nearby_todos has completed = true.
C1_CompletedExcluded ==
    \A r \in Reqs :
       Scanning(r) => \A i \in 1 .. Len(req[r].nearby_todos) : ~req[r].nearby_todos[i].completed

\* A finished scan over a store holding a completed todo with a trigger of
\* positive radius centred exactly on the query point.
C1_Witness ==
    \E r \in Reqs :
       /\ Scanned(r)
       /\ \E k \in DOMAIN todos :
             /\ todos[k].completed
             /\ \E i \in 1 .. Len(TriggersOf(todos[k])) :
                   LET z == TriggersOf(todos[k])[i]
                   IN  /\ z.latitude = req[r].location.lat
                       /\ z.longitude = req[r].location.lng
                       /\ z.radius > 0
             /\ todos[k] \notin Collected(r)

\* C2: no todo collected by get_nearby_todos is without trigger zones, be
\* location_triggers None or an empty list.
C2_NoTriggersExcluded ==
    \A r \in Reqs :
       Scanning(r) =>
          \A i \in 1 .. Len(req[r].nearby_todos) :
             /\ req[r].nearby_todos[i].location_triggers.some
             /\ Len(req[r].nearby_todos[i].location_triggers.val) > 0

\* A finished scan over a store holding a todo with location_triggers None
\* and a todo with an empty trigger list, neither completed.
C2_Witness ==
    \E r \in Reqs :
       /\ Scanned(r)
       /\ \E k1, k2 \in DOMAIN todos :
             /\ todos[k1].location_triggers = None
             /\ todos[k2].location_triggers = Some(<< >>)
             /\ ~todos[k1].completed
             /\ ~todos[k2].completed

\* C3: when the scan is over, the todos collected are exactly the stored
\* todos that are not completed and have at least one trigger zone with
\* distance(point, centre) <= radius.
C3_ExactlyTheNearby ==
    \A r \in Reqs :
       Scanned(r) =>
          Collected(r) =
             { todos[k] : k \in { j \in DOMAIN todos :
                                    /\ ~todos[j].completed
                                    /\ ZonesInRange(req[r].location, todos[j]) # {} } }

\* A finished scan that returns a todo whose first zone is out of range and
\* a later zone in range, and leaves out an incomplete todo that has zones,
\* none of them in range.
C3_Witness ==
    \E r \in Reqs :
       /\ Scanned(r)
       /\ \E k1, k2 \in DOMAIN todos :
             /\ todos[k1] \in Collected(r)
             /\ 1 \notin ZonesInRange(req[r].location, todos[k1])
             /\ ZonesInRange(req[r].location, todos[k1]) # {}
             /\ ~todos[k2].completed
             /\ Len(TriggersOf(todos[k2])) > 0
             /\ ZonesInRange(req[r].location, todos[k2]) = {}
             /\ todos[k2] \notin Collected(r)

\* Todo has a zone whose rim passes through the location: the distance to
\* its centre equals its radius.
OnRim(location, todo) ==
    \E i \in 1 .. Len(TriggersOf(todo)) :
       /\ ~IsNaN(DistanceTo(location, TriggersOf(todo)[i]))
       /\ DistanceTo(location, TriggersOf(todo)[i]) = TriggersOf(todo)[i].radius

\* C4: a query point at a distance from a zone's centre exactly equal to
\* the zone's radius matches it, so when the scan is over every incomplete
\* todo owning such a zone has been collected.
C4_BoundaryMatches ==
    \A r \in Reqs :
       Scanned(r) =>
          \A k \in DOMAIN todos :
             (~todos[k].completed /\ OnRim(req[r].location, todos[k]))
                => todos[k] \in Collected(r)

\* A finished scan that returns a todo whose only zone has a positive
\* radius equal to the distance from the query point.
C4_Witness ==
    \E r \in Reqs :
       /\ Scanned(r)
       /\ \E k \in DOMAIN todos :
             /\ Len(TriggersOf(todos[k])) = 1
             /\ TriggersOf(todos[k])[1].radius > 0
             /\ OnRim(req[r].location, todos[k])
             /\ todos[k] \in Collected(r)

\* The values of the map in the order request r's iterator has yielded them.
ScannedValues(r) == [i \in 1 .. Len(req[r].visited) |-> todos[req[r].visited[i]]]

\* s is t with some of its positions left out, the rest in t's order.
IsSubsequence(s, t) ==
    \E f \in [1 .. Len(s) -> 1 .. Len(t)] :
       /\ \A i, j \in 1 .. Len(s) : i < j => f[i] < f[j]
       /\ \A i \in 1 .. Len(s) : s[i] = t[f[i]]

\* C5: the todos collected are an order-preserving subsequence of the
\* values scanned: every key of the map is visited at most once, every
\* visited value is collected at most once, however many of its zones hold
\* the query point, and the collected todos keep the order of the scan.
C5_OrderPreservingSubsequence ==
    \A r \in Reqs :
       Scanning(r) =>
          /\ Cardinality({ req[r].visited[i] : i \in 1 .. Len(req[r].visited) })
                = Len(req[r].visited)
          /\ IsSubsequence(req[r].nearby_todos, ScannedValues(r))

\* A finished scan that returns two todos, one of which has several zones
\* holding the query point.
C5_Witness ==
    \E r \in Reqs :
       /\ Scanned(r)
       /\ Len(req[r].nearby_todos) = 2
       /\ \E k \in DOMAIN todos :
             Cardinality(ZonesInRange(req[r].location, todos[k])) > 1

\* A coordinate within the ranges of latitude and longitude, in degrees.
ValidCoordinate(location) ==
    /\ ~IsNaN(location.lat)
    /\ ~IsNaN(location.lng)
    /\ 0 - 90 * FP <= location.lat /\ location.lat <= 90 * FP
    /\ 0 - 180 * FP <= location.lng /\ location.lng <= 180 * FP

\* C6: a nearby request whose coordinate fails range validation is rejected
\* before the matcher runs: no scan is ever under way with a latitude
\* outside [-90, 90], a longitude outside [-180, 180] or a non-finite value.
C6_InvalidCoordinateRejected ==
    \A r \in Reqs : Scanning(r) => ValidCoordinate(req[r].location)

\* Request r holds an identifier obtained from get_next_id and has not yet
\* answered.
HoldsId(r) == req[r].pc \in {"get_next_id", "create_todo_wait", "create_todo"}

\* The step in which request r's create_todo inserts its todo and returns.
CreateStep(r) == req[r].pc = "create_todo" /\ req'[r].pc = "idle"

\* C7: every create_todo inserts under an identifier that is not a key of
\* the store at that time, so the store grows by exactly one record and no
\* stored todo is replaced.
C7_CreateUsesFreshId ==
    [][\A r \in Reqs :
          CreateStep(r) =>
             /\ req[r].id \notin DOMAIN todos
             /\ Cardinality(DOMAIN todos') = Cardinality(DOMAIN todos) + 1]_vars

\* C8: under every interleaving of concurrent create_todo requests,
\* get_next_id never hands one identifier to two requests.
C8_ConcurrentIdsDistinct ==
    \A r1, r2 \in Reqs :
       (r1 # r2 /\ HoldsId(r1) /\ HoldsId(r2)) => req[r1].id # req[r2].id

\* A step of request r's get_nearby_todos: taking the mutex, one turn of
\* the filter, or the return.
NearbyStep(r) == req'[r] # req[r] /\ (Scanning(r) \/ req'[r].pc = "get_nearby_todos")

\* C9: the proximity query is read-only: no step of get_nearby_todos
\* changes the store (its keys, or any field of any todo or zone) or
\* NEXT_ID.
C9_NearbyReadOnly ==
    [][\A r \in Reqs : NearbyStep(r) => (todos' = todos /\ NEXT_ID' = NEXT_ID)]_vars

\* A finished scan that has collected a todo from a store in which the
\* counter has moved on.
C9_Witness ==
    \E r \in Reqs : Scanned(r) /\ Len(req[r].nearby_todos) > 0 /\ NEXT_ID > 1

\* C10: every trigger zone of every stored todo has radius >= 0.
C10_RadiusNonNegative ==
    \A k \in DOMAIN todos :
       \A i \in 1 .. Len(TriggersOf(todos[k])) : TriggersOf(todos[k])[i].radius >= 0

(***************************************************************************)
(* Termination                                                             *)
(***************************************************************************)

\* A step of request r's handler once the request is under way: everything
\* but the arrival of a request and the wait for the mutex.
HandlerStep(r) ==
    \/ get_todos(r)
    \/ get_todo(r)
    \/ get_next_id_write(r)
    \/ create_todo(r)
    \/ update_todo(r)
    \/ delete_todo(r)
    \/ get_nearby_todos_filter(r)
    \/ get_nearby_todos(r)

\* The server under fair scheduling: a worker thread running a handler keeps
\* running it (tokio's runtime), and a handler waiting for the mutex gets it
\* if the mutex is free again and again (fair lock scheduling).
SpecFair ==
    /\ Spec
    /\ \A r \in Reqs : WF_vars(HandlerStep(r)) /\ SF_vars(create_todo_lock(r))

Latitudes == { 0 - 900000, 0 - 120000, 0, 120000, HomeLatitude, 900000, 910000 }

Longitudes == { 0 - 1800000, HomeLongitude, 0, 900000, 1800000 }

\* The arguments of a call not yet returned.
Calls ==
    { [lat1 |-> a, lng1 |-> b, lat2 |-> c, lng2 |-> d, distance |-> None] :
         a \in Latitudes, b \in Longitudes, c \in Latitudes, d \in Longitudes }

InitDistance == main /\ call \in { Some(c) : c \in Calls }

\* The call returns EARTH_RADIUS_METERS * c.
calculate_distance_return ==
    /\ call.some
    /\ ~call.val.distance.some
    /\ call' = Some([call.val EXCEPT
                       !.distance = Some(calculate_distance(call.val.lat1, call.val.lng1,
                                                            call.val.lat2, call.val.lng2))])
    /\ UNCHANGED server_vars

NextDistance == calculate_distance_return

SpecDistance == InitDistance /\ [][NextDistance]_vars

\* f64 ==: false when either side is NaN.
FEq(x, y) == ~IsNaN(x) /\ ~IsNaN(y) /\ x = y

\* A call of calculate_distance has returned.
Returned == call.some /\ call.val.distance.some

\* Both coordinates of the call are within the ranges of latitude and
\* longitude.
ValidCall ==
    /\ ValidCoordinate([lat |-> call.val.lat1, lng |-> call.val.lng1])
    /\ ValidCoordinate([lat |-> call.val.lat2, lng |-> call.val.lng2])

\* C12: calculate_distance is symmetric: for valid coordinates a and b the
\* distance from a to b equals the distance from b to a.
C12_Symmetric ==
    Returned /\ ValidCall =>
       FEq(call.val.distance.val,
           calculate_distance(call.val.lat2, call.val.lng2, call.val.lat1, call.val.lng1))

\* C13: for valid coordinates calculate_distance returns a finite,
\* non-negative value, near-antipodal points included.
C13_FiniteNonNegative ==
    Returned /\ ValidCall =>
       ~IsNaN(call.val.distance.val) /\ call.val.distance.val >= 0

\* C14: a nearby scan observes one consistent state of the store: from
\* before the first task is examined until the result is collected the scan
\* holds the mutex, no step of any request changes the store, and every
\* task examined or collected is a task of the store as it stands.
C14_ScanSeesOneState ==
    [][\A r \in Reqs :
          Scanning(r) =>
             /\ lock = r
             /\ todos' = todos
             /\ \A i \in 1 .. Len(req[r].visited) : req[r].visited[i] \in DOMAIN todos
             /\ Collected(r) \subseteq
                   { todos[req[r].visited[i]] : i \in 1 .. Len(req[r].visited) }]_vars

\* A scan has examined some of the tasks and not all and has collected one,
\* while a create_todo holds its identifier and waits for the mutex to
\* insert under it.
C14_Witness ==
    \E r1, r2 \in Reqs :
       /\ Scanning(r1)
       /\ 0 < Len(req[r1].visited)
       /\ Len(req[r1].visited) < Cardinality(DOMAIN todos)
       /\ Len(req[r1].nearby_todos) > 0
       /\ req[r2].pc = "create_todo_wait"

\* The step in which request r's update_todo returns.
UpdateStep(r) == req[r].pc = "update_todo" /\ req'[r].pc = "idle"

\* C15: update_todo never creates a record: for a path id that is not a
\* key it answers NOT_FOUND and leaves the store unchanged; for a key it
\* replaces the record under that key and nothing else, the set of keys
\* staying as it is.
C15_UpdateNeverCreates ==
    [][\A r \in Reqs :
          /\ UpdateStep(r) => DOMAIN todos' = DOMAIN todos
          /\ \A id \in PathIds :
                \A payload \in UpdateTodoPayloads(id) :
                   update_todo_at(r, id, payload) =>
                      IF id \in DOMAIN todos
                      THEN /\ response' = "OK"
                           /\ todos'[id] = payload
                           /\ \A k \in DOMAIN todos \ {id} : todos'[k] = todos[k]
                      ELSE /\ response' = "NOT_FOUND"
                           /\ todos' = todos]_vars

\* An update has replaced a record (only update_todo stores completed =
\* true), the store holds a second record, and the request answered last
\* named an id that is no key.
C15_Witness ==
    /\ \E k \in DOMAIN todos : todos[k].completed
    /\ Cardinality(DOMAIN todos) > 1
    /\ DOMAIN todos # PathIds
    /\ response = "NOT_FOUND"

\* C16: delete_todo on a key removes the record under that key and nothing
\* else and answers NO_CONTENT; on an id that is no key it answers
\* NOT_FOUND and leaves the store unchanged.  While the key is gone
\* get_todo for it answers NOT_FOUND and no scan examines or returns a
\* record under it, and the key comes back only by a create_todo that
\* inserts under it.
C16_DeleteRemoves ==
    [][\A r \in Reqs :
          /\ \A id \in PathIds :
                /\ delete_todo_at(r, id) =>
                      IF id \in DOMAIN todos
                      THEN /\ response' = "NO_CONTENT"
                           /\ DOMAIN todos' = DOMAIN todos \ {id}
                           /\ \A k \in DOMAIN todos' : todos'[k] = todos[k]
                      ELSE /\ response' = "NOT_FOUND"
                           /\ todos' = todos
                /\ get_todo_at(r, id) =>
                      response' = IF id \in DOMAIN todos THEN "OK" ELSE "NOT_FOUND"
                /\ (id \notin DOMAIN todos /\ id \in DOMAIN todos') =>
                      \E q \in Reqs : CreateStep(q) /\ req[q].id = id
          /\ (Scanning(r) /\ Len(req'[r].visited) > Len(req[r].visited)) =>
                LET k == req'[r].visited[Len(req'[r].visited)]
                IN  /\ k \in DOMAIN todos
                    /\ Len(req'[r].nearby_todos) > Len(req[r].nearby_todos) =>
                          req'[r].nearby_todos[Len(req'[r].nearby_todos)] = todos[k]]_vars

\* The record under key 1 has just been deleted, another record is still
\* stored, and a create_todo holding identifier 1 is on its way to store a
\* record under that key again.
C16_Witness ==
    /\ response = "NO_CONTENT"
    /\ 1 \notin DOMAIN todos
    /\ DOMAIN todos # {}
    /\ \E r \in Reqs : HoldsId(r) /\ req[r].id = 1

\* C17: each record is stored under its own identifier: for every key k of
\* the store the todo stored at k has id = k, after any sequence of
\* create_todo, update_todo and delete_todo.
C17_StoredUnderOwnId == \A k \in DOMAIN todos : todos[k].id = k

\* C18: every stored todo's completion_percentage is absent or a value
\* from 0 to 100.
C18_PercentageInRange ==
    \A k \in DOMAIN todos :
       todos[k].completion_percentage.some =>
          (0 <= todos[k].completion_percentage.val /\ todos[k].completion_percentage.val <= 100)

====
